---- MODULE Spec2Model ----
(***************************************************************************)
(* FoodTracker backend (src/backend/app.py): the four SQLite tables, the   *)
(* token check and the Flask handlers, as a state machine.                 *)
(*                                                                         *)
(* Time is the server clock in seconds (CURRENT_TIMESTAMP and              *)
(* datetime("now") have one-second resolution).  A handler is an operator  *)
(* from the database, the clock and the request to the new database and    *)
(* the HTTP response; the action of the handler commits that result.       *)
(***************************************************************************)
EXTENDS Integers, Sequences, FiniteSets, TLC

VARIABLES
    users,          \* table users: rows [id, username, password]
    tokens,         \* table tokens: rows [token, user_id, created_at]
    friends,        \* table friends: pairs <<user_id, friend_id>>
    food_entries,   \* table food_entries
    now,            \* the server clock, in seconds
    resp,           \* the last request and its response
    registered,     \* history: <<username, password>> of every user row created
    added,          \* history: <<user_id, friend_id>> of every add_friend answered 200
    txn             \* the add_friend requests in progress, one per server thread

vars == <<users, tokens, friends, food_entries, now, resp, registered, added, txn>>

(***************************************************************************)
(* Bounds of the model.                                                    *)
(***************************************************************************)
MaxEntries == 2

(***************************************************************************)
(* Program constants.                                                      *)
(***************************************************************************)
TOKEN_DAYS == 30
LIMIT_50 == 50
LIMIT_10 == 10

(* SQLite's datetime() and date() count days of 86400 seconds (UTC). *)
SECONDS_PER_DAY == 24 * 60 * 60

(* datetime(created_at, "+30 days"): the offset in seconds. *)
THIRTY_DAYS == TOKEN_DAYS * SECONDS_PER_DAY

(* A JSON field or header that is absent (Python None). *)
None == "<None>"

(* Python truthiness of an optional string: None and "" are falsy. *)
Falsy(s) == s = None \/ s = ""

(* Optional integers: SQL NULL / Python None is the empty set. *)
NULL == {}
Some(x) == {x}

(***************************************************************************)
(* Inputs.                                                                 *)
(***************************************************************************)
Usernames == {"alice", "bob", "carol"}
Passwords == {"secretpw", "wrongpw"}
(* The values secrets.token_hex(32) may draw, and one it never draws. *)
TokenStrings == {"t1", "t2", "t3"}
UnknownToken == "t0"
Headers == TokenStrings \cup {UnknownToken, ""}

(* Request bodies of POST /api/food. *)
Meal300 == [meal_name |-> "Test Meal", calories |-> 300, protein |-> 25,
            carbs |-> 30, fats |-> 10]
Meal200 == [meal_name |-> "Snack", calories |-> 200]
Foods == {Meal300, Meal200}

(* Request bodies of POST /api/food without a usable meal_name or without
   calories. *)
EmptyName == [meal_name |-> "", calories |-> 100]
NoName == [calories |-> 100]
NoCalories == [meal_name |-> "Snack"]
InvalidFoods == {EmptyName, NoName, NoCalories}

(* Request bodies of POST /api/food with a negative calories or macro
   value. *)
NegativeCalories == [meal_name |-> "Snack", calories |-> -50]
NegativeProtein == [meal_name |-> "Snack", calories |-> 100, protein |-> -5]
NegativeFoods == {NegativeCalories, NegativeProtein}

(* A request body of POST /api/food that names an owner of its own. *)
SpoofedOwner == [meal_name |-> "Snack", calories |-> 200, user_id |-> 2]

(* User ids a request may name: the ids of the users and one beyond. *)
Ids == 1..(Cardinality(Usernames) + 1)

(* date arguments: absent, or a calendar day. *)
Dates == {NULL, Some(0), Some(1), Some(30)}

Queries == {"", "AL"}
(* Queries holding the LIKE metacharacters "_" and "%". *)
LikeQueries == {"b_b", "%"}
FoodQueries == {"c", "chicken"}

(***************************************************************************)
(* The database.                                                           *)
(***************************************************************************)
DB == [users |-> users, tokens |-> tokens, friends |-> friends,
       food_entries |-> food_entries]

(* init_db: CREATE TABLE IF NOT EXISTS on a new file leaves four empty tables. *)
init_db == [users |-> {}, tokens |-> {}, friends |-> {}, food_entries |-> {}]

(* hashlib.sha256(password.encode()).hexdigest(): a digest, never the
   plaintext; distinct passwords of the model have distinct digests. *)
hash_password(password) == <<"sha256", password>>

(* Mutant of insert_token: no PRIMARY KEY on token, the new row replaces a
   row with the same token. *)
insert_token_replace(db, t, token, user_id) ==
    Some([db EXCEPT !.tokens =
            {r \in @ : r.token # token}
                \cup {[token |-> token, user_id |-> user_id, created_at |-> t]}])

(* INSERT INTO tokens: token is the PRIMARY KEY, so a second row with the
   same token raises IntegrityError (result NULL); created_at defaults to
   CURRENT_TIMESTAMP. *)
insert_token(db, t, token, user_id) ==
    IF \E r \in db.tokens : r.token = token
    THEN NULL
    ELSE Some([db EXCEPT !.tokens =
                 @ \cup {[token |-> token, user_id |-> user_id, created_at |-> t]}])

(* Mutant of verify_token: the expiry condition is missing from the query. *)
verify_token_no_expiry(db, t, token) ==
    LET rows == {r \in db.tokens : r.token = token}
    IN IF rows = {} THEN 0 ELSE (CHOOSE r \in rows : TRUE).user_id

(* Mutant of verify_token: ">=" for ">", so a token still validates at
   exactly created_at + 30 days. *)
verify_token_inclusive(db, t, token) ==
    LET rows == {r \in db.tokens :
                    r.token = token /\ r.created_at + THIRTY_DAYS >= t}
    IN IF rows = {} THEN 0 ELSE (CHOOSE r \in rows : TRUE).user_id

(* verify_token: the user_id of the row with this token whose created_at
   plus 30 days is strictly after now; 0 stands for None (the handlers test
   "not user_id"). *)
verify_token(db, t, token) ==
    LET rows == {r \in db.tokens :
                    r.token = token /\ r.created_at + THIRTY_DAYS > t}
    IN IF rows = {} THEN 0 ELSE (CHOOSE r \in rows : TRUE).user_id

(* The response of a handler together with the database it leaves. *)
Result(db, status, body) == [db |-> db, status |-> status, body |-> body]
Error(db, status, msg) == Result(db, status, [error |-> msg])

(* Mutant of register: INSERT OR REPLACE, so a second registration of a
   username overwrites the stored password and goes on to issue a token. *)
register_replace(db, t, username, password, token) ==
    IF Falsy(username) \/ Falsy(password)
    THEN Error(db, 400, "Username and password required")
    ELSE LET old == {u \in db.users : u.username = username}
             user_id == IF old = {} THEN Cardinality(db.users) + 1
                        ELSE (CHOOSE u \in old : TRUE).id
             db1 == [db EXCEPT !.users =
                       (@ \ old) \cup {[id |-> user_id, username |-> username,
                                         password |-> hash_password(password)]}]
             ins == insert_token(db1, t, token, user_id)
         IN IF ins = NULL
            THEN Error(db1, 400, "Username already exists")
            ELSE Result(CHOOSE d \in ins : TRUE, 201,
                        [token |-> token, username |-> username, user_id |-> user_id])

(* Mutant of register: the commit after the token INSERT is missing, so the
   token is returned but not stored. *)
register_token_uncommitted(db, t, username, password, token) ==
    IF Falsy(username) \/ Falsy(password)
    THEN Error(db, 400, "Username and password required")
    ELSE IF \E u \in db.users : u.username = username
    THEN Error(db, 400, "Username already exists")
    ELSE LET user_id == Cardinality(db.users) + 1
             db1 == [db EXCEPT !.users =
                       @ \cup {[id |-> user_id, username |-> username,
                                password |-> hash_password(password)]}]
         IN IF insert_token(db1, t, token, user_id) = NULL
            THEN Error(db1, 400, "Username already exists")
            ELSE Result(db1, 201,
                        [token |-> token, username |-> username, user_id |-> user_id])
(* register: token is the value secrets.token_hex(32) draws. *)
register(db, t, username, password, token) ==
    IF Falsy(username) \/ Falsy(password)
    THEN Error(db, 400, "Username and password required")
    ELSE IF \E u \in db.users : u.username = username
    THEN Error(db, 400, "Username already exists")
    ELSE LET user_id == Cardinality(db.users) + 1
             db1 == [db EXCEPT !.users =
                       @ \cup {[id |-> user_id, username |-> username,
                                password |-> hash_password(password)]}]
             ins == insert_token(db1, t, token, user_id)
         IN IF ins = NULL
            THEN Error(db1, 400, "Username already exists")
            ELSE Result(CHOOSE d \in ins : TRUE, 201,
                        [token |-> token, username |-> username, user_id |-> user_id])

(* Mutant of login: the query matches the username alone. *)
login_any_password(db, t, username, password, token) ==
    IF password = None
    THEN Error(db, 500, "Internal Server Error")
    ELSE LET found == {u \in db.users : u.username = username}
         IN IF found = {}
            THEN Error(db, 401, "Invalid credentials")
            ELSE LET user == CHOOSE u \in found : TRUE
                     ins == insert_token(db, t, token, user.id)
                 IN IF ins = NULL
                    THEN Error(db, 500, "Internal Server Error")
                    ELSE Result(CHOOSE d \in ins : TRUE, 200,
                                [token |-> token, username |-> user.username,
                                 user_id |-> user.id])

(* login: hash_password(None) raises AttributeError (HTTP 500); an
   IntegrityError of the token insert is not caught (HTTP 500). *)
login(db, t, username, password, token) ==
    IF password = None
    THEN Error(db, 500, "Internal Server Error")
    ELSE LET found == {u \in db.users : u.username = username
                                        /\ u.password = hash_password(password)}
         IN IF found = {}
            THEN Error(db, 401, "Invalid credentials")
            ELSE LET user == CHOOSE u \in found : TRUE
                     ins == insert_token(db, t, token, user.id)
                 IN IF ins = NULL
                    THEN Error(db, 500, "Internal Server Error")
                    ELSE Result(CHOOSE d \in ins : TRUE, 200,
                                [token |-> token, username |-> user.username,
                                 user_id |-> user.id])

(***************************************************************************)
(* SQL helpers.                                                            *)
(***************************************************************************)
Min(a, b) == IF a < b THEN a ELSE b

(* The sequences of n distinct elements of S. *)
Seqs(S, n) == {s \in [1..n -> S] : \A i, j \in 1..n : i # j => s[i] # s[j]}

Range(s) == {s[i] : i \in DOMAIN s}

(* SELECT ... LIMIT limit with no ORDER BY: SQL leaves the order (and the
   choice of rows, when the limit cuts) open. *)
AnyOrderLimit(rows, limit) == Seqs(rows, Min(limit, Cardinality(rows)))

(* SELECT ... ORDER BY logged_at DESC LIMIT limit: every sequence the query
   may return; the order among rows of equal logged_at is not fixed by the
   query. *)
OrderByLoggedAtDescLimit(rows, limit) ==
    {s \in Seqs(rows, Min(limit, Cardinality(rows))) :
        /\ \A i, j \in DOMAIN s : i < j => s[i].logged_at >= s[j].logged_at
        /\ \A r \in rows \ Range(s) : \A i \in DOMAIN s : s[i].logged_at >= r.logged_at}

(* date(x): the calendar day (UTC) of a timestamp, as days since the epoch. *)
date(ts) == ts \div SECONDS_PER_DAY

RECURSIVE SumOf(_, _)
SumOf(rows, f) ==
    IF rows = {} THEN 0
    ELSE LET r == CHOOSE x \in rows : TRUE IN r[f] + SumOf(rows \ {r}, f)

(* SUM(column): NULL over no rows. *)
SqlSum(rows, f) == IF rows = {} THEN NULL ELSE Some(SumOf(rows, f))

(* The characters of the strings of the model. *)
Chars(s) ==
    CASE s = "alice" -> <<"a", "l", "i", "c", "e">>
      [] s = "bob" -> <<"b", "o", "b">>
      [] s = "carol" -> <<"c", "a", "r", "o", "l">>
      [] s = "AL" -> <<"A", "L">>
      [] s = "b_b" -> <<"b", "_", "b">>
      [] s = "%" -> <<"%">>
      [] s = "c" -> <<"c">>
      [] s = "chicken" -> <<"c", "h", "i", "c", "k", "e", "n">>
      [] OTHER -> <<>>

(* LIKE folds the case of ASCII letters. *)
Lower(c) ==
    CASE c = "A" -> "a"
      [] c = "L" -> "l"
      [] OTHER -> c

(* text LIKE pat: "%" matches any run of characters, "_" any one. *)
RECURSIVE Like(_, _)
Like(pat, txt) ==
    IF pat = <<>> THEN txt = <<>>
    ELSE IF Head(pat) = "%"
         THEN Like(Tail(pat), txt) \/ (txt # <<>> /\ Like(pat, Tail(txt)))
         ELSE /\ txt # <<>>
              /\ (Head(pat) = "_" \/ Lower(Head(pat)) = Lower(Head(txt)))
              /\ Like(Tail(pat), Tail(txt))

(***************************************************************************)
(* Token-protected handlers.  Each returns the set of results the request  *)
(* may have.                                                               *)
(***************************************************************************)
(* Python's data.get(key, default). *)
Get(data, key, default) == IF key \in DOMAIN data THEN data[key] ELSE default

(* Mutant of authenticate: an expired token gets a message of its own. *)
authenticate_expired_message(db, t, token) ==
    IF Falsy(token) THEN Some(Error(db, 401, "Unauthorized"))
    ELSE IF verify_token(db, t, token) # 0 THEN NULL
    ELSE IF \E r \in db.tokens : r.token = token
    THEN Some(Error(db, 401, "Token expired"))
    ELSE Some(Error(db, 401, "Invalid token"))

(* The first lines of every protected handler: the Authorization header,
   then verify_token.  NULL when the request passes. *)
authenticate(db, t, token) ==
    IF Falsy(token) THEN Some(Error(db, 401, "Unauthorized"))
    ELSE IF verify_token(db, t, token) = 0 THEN Some(Error(db, 401, "Invalid token"))
    ELSE NULL

(* Mutant of add_food: the owner is the user_id of the request body when
   the body has one. *)
add_food_owner_from_body(db, t, token, data) ==
    IF authenticate(db, t, token) # NULL THEN authenticate(db, t, token)
    ELSE IF ~({"meal_name", "calories"} \subseteq DOMAIN data)
    THEN {Error(db, 500, "Internal Server Error")}
    ELSE LET entry_id == Cardinality(db.food_entries) + 1
             row == [id |-> entry_id,
                     user_id |-> Get(data, "user_id", verify_token(db, t, token)),
                     meal_name |-> data["meal_name"],
                     calories |-> data["calories"],
                     protein |-> Get(data, "protein", 0),
                     carbs |-> Get(data, "carbs", 0),
                     fats |-> Get(data, "fats", 0),
                     notes |-> Get(data, "notes", ""),
                     logged_at |-> t]
         IN {Result([db EXCEPT !.food_entries = @ \cup {row}], 201,
                    [id |-> entry_id, message |-> "Food logged successfully"])}

(* add_food: data['meal_name'] and data['calories'] raise KeyError when the
   key is missing (HTTP 500); logged_at defaults to CURRENT_TIMESTAMP. *)
add_food(db, t, token, data) ==
    IF authenticate(db, t, token) # NULL THEN authenticate(db, t, token)
    ELSE IF ~({"meal_name", "calories"} \subseteq DOMAIN data)
    THEN {Error(db, 500, "Internal Server Error")}
    ELSE LET entry_id == Cardinality(db.food_entries) + 1
             row == [id |-> entry_id,
                     user_id |-> verify_token(db, t, token),
                     meal_name |-> data["meal_name"],
                     calories |-> data["calories"],
                     protein |-> Get(data, "protein", 0),
                     carbs |-> Get(data, "carbs", 0),
                     fats |-> Get(data, "fats", 0),
                     notes |-> Get(data, "notes", ""),
                     logged_at |-> t]
         IN {Result([db EXCEPT !.food_entries = @ \cup {row}], 201,
                    [id |-> entry_id, message |-> "Food logged successfully"])}

(* The two diary queries of get_food and get_friend_food; d is the date
   argument, NULL when absent. *)
diary_query(db, user_id, d) ==
    IF d # NULL
    THEN LET rows == {e \in db.food_entries :
                         e.user_id = user_id /\ Some(date(e.logged_at)) = d}
         IN OrderByLoggedAtDescLimit(rows, Cardinality(rows))
    ELSE OrderByLoggedAtDescLimit({e \in db.food_entries : e.user_id = user_id},
                                  LIMIT_50)

(* Mutant of get_food: the date argument is read but the query without a
   date condition is run. *)
get_food_date_ignored(db, t, token, d) ==
    IF authenticate(db, t, token) # NULL THEN authenticate(db, t, token)
    ELSE {Result(db, 200, [rows |-> s]) :
             s \in diary_query(db, verify_token(db, t, token), NULL)}
get_food(db, t, token, d) ==
    IF authenticate(db, t, token) # NULL THEN authenticate(db, t, token)
    ELSE {Result(db, 200, [rows |-> s]) :
             s \in diary_query(db, verify_token(db, t, token), d)}

(* Mutant of get_stats: the date condition is missing from the query. *)
get_stats_all_dates(db, t, token, d) ==
    IF authenticate(db, t, token) # NULL THEN authenticate(db, t, token)
    ELSE LET rows == {e \in db.food_entries :
                         e.user_id = verify_token(db, t, token)}
         IN {Result(db, 200, [total_calories |-> SqlSum(rows, "calories"),
                              total_protein |-> SqlSum(rows, "protein"),
                              total_carbs |-> SqlSum(rows, "carbs"),
                              total_fats |-> SqlSum(rows, "fats")])}

(* get_stats: without a date argument the date is today's (the server's
   local date, here in UTC like the stored timestamps). *)
get_stats(db, t, token, d) ==
    IF authenticate(db, t, token) # NULL THEN authenticate(db, t, token)
    ELSE LET day == IF d = NULL THEN Some(date(t)) ELSE d
             rows == {e \in db.food_entries :
                         /\ e.user_id = verify_token(db, t, token)
                         /\ Some(date(e.logged_at)) = day}
         IN {Result(db, 200, [total_calories |-> SqlSum(rows, "calories"),
                              total_protein |-> SqlSum(rows, "protein"),
                              total_carbs |-> SqlSum(rows, "carbs"),
                              total_fats |-> SqlSum(rows, "fats")])}

search_users(db, t, token, q) ==
    IF authenticate(db, t, token) # NULL THEN authenticate(db, t, token)
    ELSE LET rows == {[id |-> u.id, username |-> u.username] : u \in
                        {u \in db.users :
                            /\ Like(<<"%">> \o Chars(q) \o <<"%">>, Chars(u.username))
                            /\ u.id # verify_token(db, t, token)}}
         IN {Result(db, 200, [rows |-> s]) : s \in AnyOrderLimit(rows, LIMIT_10)}

(* Mutant of add_friend: each INSERT is committed on its own, so the first
   stays when the second fails. *)
add_friend_no_rollback(db, t, token, friend_id) ==
    IF authenticate(db, t, token) # NULL THEN authenticate(db, t, token)
    ELSE LET user_id == verify_token(db, t, token)
         IN IF friend_id = NULL
            THEN {Error(db, 400, "Already friends")}
            ELSE LET f == CHOOSE x \in friend_id : TRUE
                     first == db.friends \cup {<<user_id, f>>}
                 IN IF <<user_id, f>> \in db.friends
                    THEN {Error(db, 400, "Already friends")}
                    ELSE IF <<f, user_id>> \in first
                    THEN {Error([db EXCEPT !.friends = first], 400, "Already friends")}
                    ELSE {Result([db EXCEPT !.friends = first \cup {<<f, user_id>>}],
                                 200, [message |-> "Friend added"])}

(* Mutant of add_friend: INSERT OR IGNORE, so an INSERT of an existing pair
   is skipped without an error. *)
add_friend_or_ignore(db, t, token, friend_id) ==
    IF authenticate(db, t, token) # NULL THEN authenticate(db, t, token)
    ELSE LET user_id == verify_token(db, t, token)
         IN IF friend_id = NULL
            THEN {Error(db, 400, "Already friends")}
            ELSE LET f == CHOOSE x \in friend_id : TRUE
                 IN {Result([db EXCEPT !.friends =
                                @ \cup {<<user_id, f>>, <<f, user_id>>}],
                            200, [message |-> "Friend added"])}
(* add_friend: two INSERTs and one commit.  Either INSERT raises
   IntegrityError on an existing (user_id, friend_id) pair or a NULL
   friend_id; the connection is then closed without a commit, which rolls
   the first INSERT back.  Foreign keys are not enforced (no PRAGMA). *)
add_friend(db, t, token, friend_id) ==
    IF authenticate(db, t, token) # NULL THEN authenticate(db, t, token)
    ELSE LET user_id == verify_token(db, t, token)
         IN IF friend_id = NULL
            THEN {Error(db, 400, "Already friends")}
            ELSE LET f == CHOOSE x \in friend_id : TRUE
                     first == db.friends \cup {<<user_id, f>>}
                 IN IF <<user_id, f>> \in db.friends \/ <<f, user_id>> \in first
                    THEN {Error(db, 400, "Already friends")}
                    ELSE {Result([db EXCEPT !.friends = first \cup {<<f, user_id>>}],
                                 200, [message |-> "Friend added"])}

(* Mutant of get_friends: a request with a valid token restarts the
   token's 30 days (UPDATE tokens SET created_at = CURRENT_TIMESTAMP). *)
get_friends_sliding(db, t, token) ==
    IF authenticate(db, t, token) # NULL THEN authenticate(db, t, token)
    ELSE LET rows == {[id |-> u.id, username |-> u.username] : u \in
                        {u \in db.users :
                            <<verify_token(db, t, token), u.id>> \in db.friends}}
             db1 == [db EXCEPT !.tokens =
                       {IF r.token = token THEN [r EXCEPT !.created_at = t] ELSE r :
                          r \in @}]
         IN {Result(db1, 200, [rows |-> s]) : s \in AnyOrderLimit(rows, Cardinality(rows))}

get_friends(db, t, token) ==
    IF authenticate(db, t, token) # NULL THEN authenticate(db, t, token)
    ELSE LET rows == {[id |-> u.id, username |-> u.username] : u \in
                        {u \in db.users :
                            <<verify_token(db, t, token), u.id>> \in db.friends}}
         IN {Result(db, 200, [rows |-> s]) : s \in AnyOrderLimit(rows, Cardinality(rows))}

(* Mutant of get_friend_food: the friendship check is missing. *)
get_friend_food_unchecked(db, t, token, friend_id, d) ==
    IF authenticate(db, t, token) # NULL THEN authenticate(db, t, token)
    ELSE {Result(db, 200, [rows |-> s]) : s \in diary_query(db, friend_id, d)}

(* Mutant of get_friend_food: the check looks the friend up in users, not
   the pair in friends. *)
get_friend_food_any_user(db, t, token, friend_id, d) ==
    IF authenticate(db, t, token) # NULL THEN authenticate(db, t, token)
    ELSE IF \A u \in db.users : u.id # friend_id
    THEN {Error(db, 403, "Not friends")}
    ELSE {Result(db, 200, [rows |-> s]) : s \in diary_query(db, friend_id, d)}
get_friend_food(db, t, token, friend_id, d) ==
    IF authenticate(db, t, token) # NULL THEN authenticate(db, t, token)
    ELSE IF <<verify_token(db, t, token), friend_id>> \notin db.friends
    THEN {Error(db, 403, "Not friends")}
    ELSE {Result(db, 200, [rows |-> s]) : s \in diary_query(db, friend_id, d)}

(* A row of the feed: the food entry with its author's username. *)
FeedRow(e, username) ==
    [id |-> e.id, user_id |-> e.user_id, meal_name |-> e.meal_name,
     calories |-> e.calories, protein |-> e.protein, carbs |-> e.carbs,
     fats |-> e.fats, notes |-> e.notes, logged_at |-> e.logged_at,
     username |-> username]

(* Mutant of feed_query: the friends condition is missing from the query. *)
feed_query_unfiltered(db, user_id, limit) ==
    LET rows == {FeedRow(p[1], p[2].username) : p \in
                    {p \in db.food_entries \X db.users : p[1].user_id = p[2].id}}
    IN OrderByLoggedAtDescLimit(rows, limit)

(* The query of get_feed, with its LIMIT as a parameter. *)
feed_query(db, user_id, limit) ==
    LET rows == {FeedRow(p[1], p[2].username) : p \in
                    {p \in db.food_entries \X db.users :
                        /\ p[1].user_id = p[2].id
                        /\ <<user_id, p[1].user_id>> \in db.friends}}
    IN OrderByLoggedAtDescLimit(rows, limit)

get_feed(db, t, token) ==
    IF authenticate(db, t, token) # NULL THEN authenticate(db, t, token)
    ELSE {Result(db, 200, [rows |-> s]) :
             s \in feed_query(db, verify_token(db, t, token), LIMIT_50)}

(* search_food: a query shorter than two characters gives no results;
   otherwise the results come from the USDA service or, when it fails, from
   the demo table.  The result lists are outside the database. *)
search_food(db, t, token, q) ==
    IF authenticate(db, t, token) # NULL THEN authenticate(db, t, token)
    ELSE IF Len(Chars(q)) < 2 THEN {Result(db, 200, [results |-> "none"])}
    ELSE {Result(db, 200, [results |-> src]) : src \in {"usda", "demo"}}

(* The routes of the token-protected handlers: the results of request q
   sent with Authorization header token. *)
handle(db, t, token, q) ==
    CASE q.op = "add_food" -> add_food(db, t, token, q.data)
      [] q.op = "get_food" -> get_food(db, t, token, q.date)
      [] q.op = "get_stats" -> get_stats(db, t, token, q.date)
      [] q.op = "search_users" -> search_users(db, t, token, q.q)
      [] q.op = "add_friend" -> add_friend(db, t, token, q.friend_id)
      [] q.op = "get_friends" -> get_friends(db, t, token)
      [] q.op = "get_friend_food" -> get_friend_food(db, t, token, q.friend_id, q.date)
      [] q.op = "get_feed" -> get_feed(db, t, token)
      [] q.op = "search_food" -> search_food(db, t, token, q.q)

(***************************************************************************)
(* The state machine.                                                      *)
(***************************************************************************)
Bounded(db) == Cardinality(db.food_entries) <= MaxEntries

(* The threads of the server that may each be inside add_friend, and the
   record of a thread that is not. *)
Threads == {1, 2}
Idle == [pc |-> "idle", user_id |-> 0, friend_id |-> NULL, writes |-> {},
         status |-> 0, fresh |-> FALSE, undone |-> {}]

Commit(op, req, r) ==
    /\ Bounded(r.db)
    /\ users' = r.db.users
    /\ tokens' = r.db.tokens
    /\ friends' = r.db.friends
    /\ food_entries' = r.db.food_entries
    /\ resp' = [op |-> op, req |-> req, at |-> now, status |-> r.status,
                body |-> r.body]
    /\ registered' = IF r.db.users = users THEN registered
                     ELSE registered \cup {<<req.username, req.password>>}
    /\ added' = IF op = "add_friend" /\ r.status = 200
                THEN added \cup {<<(CHOOSE row \in tokens : row.token = req.token).user_id,
                                   CHOOSE f \in req.friend_id : TRUE>>}
                ELSE added
    /\ UNCHANGED txn
    /\ UNCHANGED now

StartsAt(db, reg) ==
    /\ registered = reg
    /\ added = {}
    /\ txn = [i \in Threads |-> Idle]
    /\ users = db.users
    /\ tokens = db.tokens
    /\ friends = db.friends
    /\ food_entries = db.food_entries
    /\ now = 0
    /\ resp = [op |-> "init_db", req |-> <<>>, at |-> 0, status |-> 0,
               body |-> [error |-> ""]]

Register(U, P, T) ==
    \E u \in U, p \in P, tok \in T :
        Commit("register", [username |-> u, password |-> p],
               register(DB, now, u, p, tok))

Login(U, P, T) ==
    \E u \in U, p \in P, tok \in T :
        Commit("login", [username |-> u, password |-> p],
               login(DB, now, u, p, tok))

AddFood(H, F) ==
    \E h \in H, data \in F : \E r \in add_food(DB, now, h, data) :
        Commit("add_food", [token |-> h, data |-> data], r)

GetFood(H, D) ==
    \E h \in H, d \in D : \E r \in get_food(DB, now, h, d) :
        Commit("get_food", [token |-> h, date |-> d], r)

GetStats(H, D) ==
    \E h \in H, d \in D : \E r \in get_stats(DB, now, h, d) :
        Commit("get_stats", [token |-> h, date |-> d], r)

SearchUsers(H, Q) ==
    \E h \in H, q \in Q : \E r \in search_users(DB, now, h, q) :
        Commit("search_users", [token |-> h, q |-> q], r)

AddFriend(H, I) ==
    \E h \in H, f \in I : \E r \in add_friend(DB, now, h, f) :
        Commit("add_friend", [token |-> h, friend_id |-> f], r)

GetFriends(H) ==
    \E h \in H : \E r \in get_friends(DB, now, h) :
        Commit("get_friends", [token |-> h], r)

GetFriendFood(H, I, D) ==
    \E h \in H, f \in I, d \in D : \E r \in get_friend_food(DB, now, h, f, d) :
        Commit("get_friend_food", [token |-> h, friend_id |-> f, date |-> d], r)

GetFeed(H) ==
    \E h \in H : \E r \in get_feed(DB, now, h) :
        Commit("get_feed", [token |-> h], r)

SearchFood(H, Q) ==
    \E h \in H, q \in Q : \E r \in search_food(DB, now, h, q) :
        Commit("search_food", [token |-> h, q |-> q], r)

(* The server clock advances. *)
Tick(I) ==
    /\ \E t \in I : t > now /\ now' = t
    /\ UNCHANGED <<users, tokens, friends, food_entries, resp, registered, added, txn>>

(***************************************************************************)
(* add_friend, statement by statement.  Each request runs on a thread of   *)
(* the server with a connection of its own; writes is what the connection  *)
(* has inserted and not committed, seen by no other connection.  A         *)
(* connection with uncommitted writes holds the write lock of the database *)
(* file, and the first INSERT of another connection waits for it.  The     *)
(* fields fresh and undone are history: whether neither edge of the pair   *)
(* was committed when the request began, and the writes that were rolled   *)
(* back.                                                                   *)
(***************************************************************************)
(* INSERT INTO friends (user_id, friend_id): both columns are NOT NULL and
   the pair is the PRIMARY KEY; IntegrityError is the result NULL. *)
insert_friend(rows, user_id, friend_id) ==
    IF user_id = NULL \/ friend_id = NULL THEN NULL
    ELSE LET pair == <<CHOOSE x \in user_id : TRUE, CHOOSE x \in friend_id : TRUE>>
         IN IF pair \in rows THEN NULL ELSE Some(rows \cup {pair})

(* conn.commit(): the writes of the connection become the committed rows. *)
commit(rows, writes) == rows \cup writes

(* Mutant of close_without_commit: the connection is in autocommit mode, so
   each INSERT is committed as it is executed. *)
close_autocommit(rows, writes) == rows \cup writes

(* conn.close() with a transaction open, and a crash of the server before
   conn.commit(): the transaction is rolled back. *)
close_without_commit(rows, writes) == rows

(* Mutant of WriteLockFree: connections do not wait for each other. *)
WriteLockIgnored(t, i) == TRUE

(* No other connection holds the write lock. *)
WriteLockFree(t, i) == \A j \in Threads \ {i} : t[j].writes = {}

Finished(i, status) ==
    [txn[i] EXCEPT !.pc = "done", !.status = status, !.writes = {},
                   !.undone = txn[i].writes]

(* The token check, request.json.get('friend_id') and get_db(). *)
BeginAddFriend(T, H, I) ==
    \E i \in T, h \in H, f \in I :
        /\ txn[i].pc \in {"idle", "done", "crashed"}
        /\ txn' = [txn EXCEPT ![i] =
              IF authenticate(DB, now, h) # NULL
              THEN [Idle EXCEPT !.pc = "done", !.status = 401]
              ELSE LET u == verify_token(DB, now, h)
                   IN [Idle EXCEPT !.pc = "insert1", !.user_id = u, !.friend_id = f,
                                   !.fresh = \A x \in f : /\ <<u, x>> \notin friends
                                                          /\ <<x, u>> \notin friends]]
        /\ UNCHANGED <<users, tokens, friends, food_entries, now, resp, registered,
                       added>>

(* The first INSERT, (user_id, friend_id); on IntegrityError the handler
   returns 400 and closes the connection. *)
Insert1(T) ==
    \E i \in T :
        /\ txn[i].pc = "insert1"
        /\ WriteLockFree(txn, i)
        /\ LET r == insert_friend(friends \cup txn[i].writes,
                                  Some(txn[i].user_id), txn[i].friend_id)
           IN IF r = NULL
              THEN /\ friends' = close_without_commit(friends, txn[i].writes)
                   /\ txn' = [txn EXCEPT ![i] = Finished(i, 400)]
              ELSE /\ friends' = friends
                   /\ txn' = [txn EXCEPT ![i].pc = "insert2",
                                         ![i].writes = (CHOOSE x \in r : TRUE) \ friends]
        /\ UNCHANGED <<users, tokens, food_entries, now, resp, registered, added>>

(* The second INSERT, (friend_id, user_id). *)
Insert2(T) ==
    \E i \in T :
        /\ txn[i].pc = "insert2"
        /\ LET r == insert_friend(friends \cup txn[i].writes,
                                  txn[i].friend_id, Some(txn[i].user_id))
           IN IF r = NULL
              THEN /\ friends' = close_without_commit(friends, txn[i].writes)
                   /\ txn' = [txn EXCEPT ![i] = Finished(i, 400)]
              ELSE /\ friends' = friends
                   /\ txn' = [txn EXCEPT ![i].pc = "commit",
                                         ![i].writes = (CHOOSE x \in r : TRUE) \ friends]
        /\ UNCHANGED <<users, tokens, food_entries, now, resp, registered, added>>

(* conn.commit(), then the response 200 and conn.close(). *)
CommitTxn(T) ==
    \E i \in T :
        /\ txn[i].pc = "commit"
        /\ friends' = commit(friends, txn[i].writes)
        /\ txn' = [txn EXCEPT ![i] = [txn[i] EXCEPT !.pc = "done", !.status = 200,
                                                    !.writes = {}]]
        /\ added' = added \cup {<<txn[i].user_id, CHOOSE x \in txn[i].friend_id : TRUE>>}
        /\ UNCHANGED <<users, tokens, food_entries, now, resp, registered>>

(* The server process dies while requests are in progress: no response is
   sent, and every open transaction is rolled back when the database is
   next opened. *)
Crash ==
    /\ \E i \in Threads : txn[i].pc \in {"insert1", "insert2", "commit"}
    /\ friends' = close_without_commit(friends, UNION {txn[i].writes : i \in Threads})
    /\ txn' = [i \in Threads |->
                 IF txn[i].pc \in {"insert1", "insert2", "commit"}
                 THEN [txn[i] EXCEPT !.pc = "crashed", !.writes = {},
                                     !.undone = txn[i].writes]
                 ELSE txn[i]]
    /\ UNCHANGED <<users, tokens, food_entries, now, resp, registered, added>>

(***************************************************************************)
(* register, statement by statement, on the threads of the server.  The    *)
(* user row is committed before the token is drawn, so the handler holds   *)
(* the write lock twice: from the INSERT of the user to the first commit,  *)
(* and from the INSERT of the token to the second.  The field fresh is     *)
(* history: whether the username was free when the request began.          *)
(***************************************************************************)
(* Mutant of insert_user: the username column is not UNIQUE. *)
insert_user_not_unique(rows, username, digest) ==
    Some(rows \cup {[id |-> Cardinality(rows) + 1, username |-> username,
                     password |-> digest]})

(* INSERT INTO users (username, password): username is UNIQUE, so a second
   row with the same username raises IntegrityError (result NULL); id is the
   INTEGER PRIMARY KEY AUTOINCREMENT. *)
insert_user(rows, username, digest) ==
    IF \E u \in rows : u.username = username
    THEN NULL
    ELSE Some(rows \cup {[id |-> Cardinality(rows) + 1, username |-> username,
                          password |-> digest]})

(* A register request in progress. *)
Registering(username, password) ==
    [pc |-> "insert_user", user_id |-> 0, friend_id |-> NULL, writes |-> {},
     status |-> 0, fresh |-> \A u \in users : u.username # username,
     undone |-> {}, username |-> username, password |-> password, token |-> None]

(* request.json, the check of the two fields and get_db(). *)
BeginRegister(T, U, P) ==
    \E i \in T, username \in U, password \in P :
        /\ txn[i].pc \in {"idle", "done", "crashed"}
        /\ txn' = [txn EXCEPT ![i] =
              IF Falsy(username) \/ Falsy(password)
              THEN [Registering(username, password) EXCEPT !.pc = "done", !.status = 400]
              ELSE Registering(username, password)]
        /\ UNCHANGED <<users, tokens, friends, food_entries, now, resp, registered,
                       added>>

(* The INSERT of the user row; on IntegrityError the handler returns 400
   "Username already exists" and closes the connection. *)
InsertUser(T) ==
    \E i \in T :
        /\ txn[i].pc = "insert_user"
        /\ WriteLockFree(txn, i)
        /\ LET r == insert_user(users \cup txn[i].writes, txn[i].username,
                                hash_password(txn[i].password))
           IN IF r = NULL
              THEN txn' = [txn EXCEPT ![i] = Finished(i, 400)]
              ELSE txn' = [txn EXCEPT ![i].pc = "commit_user",
                                      ![i].writes = (CHOOSE x \in r : TRUE) \ users]
        /\ UNCHANGED <<users, tokens, friends, food_entries, now, resp, registered,
                       added>>

(* The first conn.commit() and user_id = c.lastrowid. *)
CommitUser(T) ==
    \E i \in T :
        /\ txn[i].pc = "commit_user"
        /\ users' = commit(users, txn[i].writes)
        /\ txn' = [txn EXCEPT ![i].pc = "insert_token", ![i].writes = {},
                              ![i].user_id = (CHOOSE u \in txn[i].writes : TRUE).id]
        /\ registered' = registered \cup {<<txn[i].username, txn[i].password>>}
        /\ UNCHANGED <<tokens, friends, food_entries, now, resp, added>>

(* secrets.token_hex(32) and the INSERT of the token row; on IntegrityError
   the handler returns 400 "Username already exists". *)
InsertToken(T, K) ==
    \E i \in T, token \in K :
        /\ txn[i].pc = "insert_token"
        /\ WriteLockFree(txn, i)
        /\ LET r == insert_token([DB EXCEPT !.tokens = @ \cup txn[i].writes], now,
                                 token, txn[i].user_id)
           IN IF r = NULL
              THEN txn' = [txn EXCEPT ![i] = [Finished(i, 400) EXCEPT !.token = token]]
              ELSE txn' = [txn EXCEPT ![i].pc = "commit_token", ![i].token = token,
                                      ![i].writes = (CHOOSE d \in r : TRUE).tokens \ tokens]
        /\ UNCHANGED <<users, tokens, friends, food_entries, now, resp, registered,
                       added>>

(* The second conn.commit(), then the response 201 and conn.close(). *)
CommitToken(T) ==
    \E i \in T :
        /\ txn[i].pc = "commit_token"
        /\ tokens' = commit(tokens, txn[i].writes)
        /\ txn' = [txn EXCEPT ![i].pc = "done", ![i].status = 201, ![i].writes = {}]
        /\ UNCHANGED <<users, friends, food_entries, now, resp, registered, added>>

(***************************************************************************)
(* Accounts and sessions: from the empty database, two usernames, two      *)
(* token draws, the clock at T, T+29d23h, T+30d and T+30d1h.               *)
(***************************************************************************)
AuthUsers == {"alice", "bob"}
AuthDraws == {"t1", "t2"}
AuthHeaders == {"", "t1", "t2"}
AuthInstants == {0, 2588400, 2592000, 2595600}

Init == StartsAt(init_db, {})

Next ==
    \/ Register(AuthUsers \cup {""}, Passwords \cup {""}, AuthDraws)
    \/ Login(AuthUsers, Passwords \cup {None}, AuthDraws)
    \/ GetFriends(AuthHeaders)
    \/ Tick(AuthInstants)

Spec == Init /\ [][Next]_vars

(***************************************************************************)
(* Diary and friends: alice, bob and carol have registered at T (tokens    *)
(* t1, t2, t3); the clock at T and T+1d.                                   *)
(***************************************************************************)
SocialInstants == {0, 86400}

InitSocial ==
    LET a == register(init_db, 0, "alice", "secretpw", "t1").db
        b == register(a, 0, "bob", "secretpw", "t2").db
        c == register(b, 0, "carol", "secretpw", "t3").db
    IN StartsAt(c, {<<"alice", "secretpw">>, <<"bob", "secretpw">>,
                    <<"carol", "secretpw">>})

NextSocial ==
    \/ AddFood({"t1"}, Foods)
    \/ AddFood({"t2", "t3"}, {Meal300})
    \/ GetFood({"t1"}, {NULL, Some(0)})
    \/ GetStats({"t1"}, {NULL, Some(0)})
    \/ AddFriend({"t1"}, {NULL, Some(1), Some(2), Some(3)})
    \/ AddFriend({"t2"}, {Some(1)})
    \/ GetFriends({"t1"})
    \/ GetFriendFood({"t1"}, {2, 3}, {NULL, Some(0)})
    \/ GetFeed({"t1"})
    \/ Tick(SocialInstants)

SpecSocial == InitSocial /\ [][NextSocial]_vars

(***************************************************************************)
(* The token gate: alice and bob have registered at T (tokens t1, t2);     *)
(* every protected request is sent without a token, with a token never     *)
(* issued and with alice's token, before and after it expires at T+30d.    *)
(***************************************************************************)
GateHeaders == {"", UnknownToken, "t1"}
GateInstants == {0, 2592000}

InitGate ==
    LET a == register(init_db, 0, "alice", "secretpw", "t1").db
        b == register(a, 0, "bob", "secretpw", "t2").db
    IN StartsAt(b, {<<"alice", "secretpw">>, <<"bob", "secretpw">>})

NextGate ==
    \/ AddFood(GateHeaders, {Meal300})
    \/ GetFood(GateHeaders, {NULL})
    \/ GetStats(GateHeaders, {Some(0)})
    \/ SearchUsers(GateHeaders, Queries)
    \/ AddFriend(GateHeaders, {Some(2)})
    \/ GetFriends(GateHeaders)
    \/ GetFriendFood(GateHeaders, {2}, {NULL})
    \/ GetFeed(GateHeaders)
    \/ SearchFood(GateHeaders, FoodQueries)
    \/ Tick(GateInstants)

SpecGate == InitGate /\ [][NextGate]_vars

(***************************************************************************)
(* The diary: alice and bob have registered at T (tokens t1, t2); meals    *)
(* are posted, complete, incomplete and with negative values, and the      *)
(* diary is read with and without a date; the clock at T and T+1d.         *)
(***************************************************************************)
DiaryInstants == {0, 86400}

InitDiary ==
    LET a == register(init_db, 0, "alice", "secretpw", "t1").db
        b == register(a, 0, "bob", "secretpw", "t2").db
    IN StartsAt(b, {<<"alice", "secretpw">>, <<"bob", "secretpw">>})

NextDiary ==
    \/ AddFood({"t1"}, Foods \cup InvalidFoods)
    \/ AddFood({"t2"}, {Meal300} \cup NegativeFoods)
    \/ GetFood({"t1", "t2"}, {NULL, Some(0), Some(1)})
    \/ Tick(DiaryInstants)

SpecDiary == InitDiary /\ [][NextDiary]_vars

(***************************************************************************)
(* The social graph: alice, bob and carol have registered at T (tokens t1, *)
(* t2, t3); alice and bob add friends, each other, carol and themselves,   *)
(* alice also an id that no user has; bob logs meals, alice a meal whose   *)
(* body names bob as its owner; friends are listed, diaries and feeds      *)
(* read, users searched.                                                   *)
(***************************************************************************)
InitGraph ==
    LET a == register(init_db, 0, "alice", "secretpw", "t1").db
        b == register(a, 0, "bob", "secretpw", "t2").db
        c == register(b, 0, "carol", "secretpw", "t3").db
    IN StartsAt(c, {<<"alice", "secretpw">>, <<"bob", "secretpw">>,
                    <<"carol", "secretpw">>})

NextGraph ==
    \/ AddFriend({"t1"}, {Some(i) : i \in Ids})
    \/ AddFriend({"t2"}, {Some(1), Some(3)})
    \/ AddFood({"t1"}, {SpoofedOwner})
    \/ AddFood({"t2"}, {Meal300})
    \/ GetFriends({"t1", "t2", "t3"})
    \/ GetFriendFood({"t1", "t3"}, {2}, {NULL})
    \/ GetFeed({"t1", "t3"})
    \/ SearchUsers({"t1"}, Queries \cup LikeQueries)

SpecGraph == InitGraph /\ [][NextGraph]_vars

(***************************************************************************)
(* Concurrent add_friend: alice, bob and carol have registered at T        *)
(* (tokens t1, t2, t3); alice and bob send add_friend requests that the    *)
(* two threads of the server handle at the same time, and the server may   *)
(* crash.                                                                  *)
(***************************************************************************)
InitTxn ==
    LET a == register(init_db, 0, "alice", "secretpw", "t1").db
        b == register(a, 0, "bob", "secretpw", "t2").db
        c == register(b, 0, "carol", "secretpw", "t3").db
    IN StartsAt(c, {<<"alice", "secretpw">>, <<"bob", "secretpw">>,
                    <<"carol", "secretpw">>})

NextTxn ==
    \/ BeginAddFriend(Threads, {"t1", "t2", UnknownToken}, {NULL, Some(1), Some(2), Some(3)})
    \/ Insert1(Threads)
    \/ Insert2(Threads)
    \/ CommitTxn(Threads)
    \/ Crash

SpecTxn == InitTxn /\ [][NextTxn]_vars

(***************************************************************************)
(* Concurrent register: from the empty database, the two threads of the   *)
(* server handle register requests for two usernames at the same time,    *)
(* with two passwords and three token draws.                              *)
(***************************************************************************)
InitReg == StartsAt(init_db, {})

NextReg ==
    \/ BeginRegister(Threads, {"alice", "bob", None}, Passwords)
    \/ InsertUser(Threads)
    \/ CommitUser(Threads)
    \/ InsertToken(Threads, TokenStrings)
    \/ CommitToken(Threads)

SpecReg == InitReg /\ [][NextReg]_vars

(***************************************************************************)
(* Every operation: alice and bob have registered at T (tokens t1, t2);   *)
(* carol registers, alice logs in again, and alice's first token is used   *)
(* for every protected request; the clock at T, T+1d and T+30d.            *)
(***************************************************************************)
LogInstants == {0, 86400, 2592000}

InitLog ==
    LET a == register(init_db, 0, "alice", "secretpw", "t1").db
        b == register(a, 0, "bob", "secretpw", "t2").db
    IN StartsAt(b, {<<"alice", "secretpw">>, <<"bob", "secretpw">>})

NextLog ==
    \/ Register({"alice", "carol"}, {"secretpw"}, {"t3"})
    \/ Login({"alice"}, Passwords, {"t1", "t3"})
    \/ AddFood({"t1"}, {Meal300})
    \/ GetFood({"t1"}, {NULL})
    \/ GetStats({"t1"}, {NULL})
    \/ SearchUsers({"t1"}, {"AL"})
    \/ AddFriend({"t1"}, {Some(2)})
    \/ AddFriend({"t2"}, {Some(1)})
    \/ GetFriends({"t1"})
    \/ GetFriendFood({"t1"}, {2}, {NULL})
    \/ GetFeed({"t1"})
    \/ SearchFood({"t1"}, {"chicken"})
    \/ Tick(LogInstants)

SpecLog == InitLog /\ [][NextLog]_vars

(***************************************************************************)
(* Vocabulary of the properties.                                           *)
(***************************************************************************)
Expiry == 30 * 24 * 3600

StoredTokens == {r.token : r \in tokens}

(* The token row a header names, its owner, and whether it is still inside
   its window at the current clock. *)
RowsOf(h) == {r \in tokens : r.token = h}
Live(h) == \E r \in RowsOf(h) : now < r.created_at + Expiry
Expired(h) == \E r \in RowsOf(h) : now >= r.created_at + Expiry
Owner(h) == (CHOOSE r \in RowsOf(h) : TRUE).user_id

(* What the caller sees of a set of results. *)
View(R) == {[status |-> r.status, body |-> r.body] : r \in R}

AllPasswords == Passwords \cup {"", None}

(***************************************************************************)
(* C1.  As stated: once username U is registered, every later              *)
(* register(U, p), whatever the password p, fails with DuplicateUsername   *)
(* ("Username already exists"), creates no user, issues no token and       *)
(* leaves the credential record as it was.                                 *)
(***************************************************************************)
C1_AnyPasswordDuplicateUsername ==
    \A u \in users, p \in AllPasswords, tok \in TokenStrings :
        LET r == register(DB, now, u.username, p, tok)
        IN /\ r.status = 400
           /\ r.body = [error |-> "Username already exists"]
           /\ r.db = DB

(* C1, amended: once username U is registered, every later register(U, p)
   fails with status 400, creates no user and issues no token, and leaves
   the database unchanged, so that login with the password U registered
   with still succeeds and login with any other password still fails; the
   failure is DuplicateUsername when p is non-empty and "Username and
   password required" when p is empty or missing. *)
C1_DuplicateRegisterRejected ==
    \A c \in registered, p \in AllPasswords, tok \in TokenStrings :
        LET r == register(DB, now, c[1], p, tok)
        IN /\ r.status = 400
           /\ r.body = [error |-> IF Falsy(p) THEN "Username and password required"
                                  ELSE "Username already exists"]
           /\ r.db = DB
           /\ \A q \in Passwords, fresh \in TokenStrings \ StoredTokens :
                 login(r.db, now, c[1], q, fresh).status
                     = IF q = c[2] THEN 200 ELSE 401

(* A registration of an existing username with another password than the
   one on record was rejected as a duplicate. *)
C1_Witness ==
    /\ resp.op = "register"
    /\ resp.status = 400
    /\ resp.body = [error |-> "Username already exists"]
    /\ \E c \in registered :
          c[1] = resp.req.username /\ c[2] # resp.req.password

(***************************************************************************)
(* C2.  A token issued at the stored time T validates to its user at every *)
(* check time strictly before T + 30 days (T, T+1s, T+29d23h, T+30d-1s)    *)
(* and to no user at T + 30 days and later (T+30d, T+30d+1s, T+30d1h); at  *)
(* the current clock likewise.  The answer is the one the token's row and  *)
(* the clock give with every other row of the database removed.            *)
(***************************************************************************)
BeforeExpiry == {0, 1, 2588400, 2591999}
FromExpiry == {2592000, 2592001, 2595600}

C2_TokenValidityWindow ==
    \A r \in tokens :
        /\ r.user_id # 0
        /\ \A d \in BeforeExpiry :
              verify_token(DB, r.created_at + d, r.token) = r.user_id
        /\ \A d \in FromExpiry : verify_token(DB, r.created_at + d, r.token) = 0
        /\ verify_token(DB, now, r.token)
              = IF now < r.created_at + Expiry THEN r.user_id ELSE 0
        /\ \A t \in {now, r.created_at + Expiry} :
              verify_token(DB, t, r.token)
                 = verify_token([init_db EXCEPT !.tokens = {r}], t, r.token)

(* A token was presented exactly 30 days after it was issued and refused. *)
C2_Witness ==
    /\ resp.op = "get_friends"
    /\ resp.status = 401
    /\ \E r \in tokens :
          r.token = resp.req.token /\ resp.at = r.created_at + Expiry
(***************************************************************************)
(* C7.  login(U, P) succeeds, issuing one token for user U, exactly when U *)
(* is registered and P is the password U registered with; an unknown       *)
(* username and a wrong password both give 401 "Invalid credentials"; a    *)
(* login that does not succeed issues no token and changes nothing.  (The  *)
(* token drawn is one not yet stored.  A request without a password field  *)
(* is no wrong password: it ends in a server error, also without change.)  *)
(***************************************************************************)
C7_LoginIffCredentialsMatch ==
    /\ \A u \in Usernames \cup {None, ""}, p \in Passwords \cup {""},
          tok \in TokenStrings \ StoredTokens :
          LET r == login(DB, now, u, p, tok)
          IN IF <<u, p>> \in registered
             THEN \E row \in users :
                     /\ row.username = u
                     /\ r.status = 200
                     /\ r.body = [token |-> tok, username |-> u, user_id |-> row.id]
                     /\ r.db = [DB EXCEPT !.tokens = @ \cup
                                  {[token |-> tok, user_id |-> row.id,
                                    created_at |-> now]}]
             ELSE /\ r.status = 401
                  /\ r.body = [error |-> "Invalid credentials"]
                  /\ r.db = DB
    /\ \A u \in Usernames \cup {None, ""}, p \in AllPasswords, tok \in TokenStrings :
          LET r == login(DB, now, u, p, tok)
          IN r.status # 200 => (r.db = DB /\ DOMAIN r.body = {"error"})

(* A login with the registered password succeeded and its token is stored
   for that user. *)
C7_Witness ==
    /\ resp.op = "login"
    /\ resp.status = 200
    /\ <<resp.req.username, resp.req.password>> \in registered
    /\ \E r \in tokens : r.token = resp.body.token /\ r.user_id = resp.body.user_id

(***************************************************************************)
(* C8.  Every issuance, by register or by login, returns a token that is   *)
(* not among the tokens stored before, and keeps every earlier token: each *)
(* token issued less than 30 days ago validates to its user, before and    *)
(* after the issuance.                                                     *)
(***************************************************************************)
Issuances ==
    {register(DB, now, u, p, tok) :
        u \in Usernames, p \in Passwords, tok \in TokenStrings}
    \cup {login(DB, now, u, p, tok) :
        u \in Usernames, p \in Passwords, tok \in TokenStrings}

C8_IssuedTokensDistinctAndKept ==
    /\ \A r \in Issuances :
          r.status \in {200, 201} =>
             /\ r.body.token \notin StoredTokens
             /\ \E row \in r.db.tokens :
                   row.token = r.body.token /\ row.user_id = r.body.user_id
             /\ \A row \in tokens :
                   /\ row \in r.db.tokens
                   /\ now < row.created_at + Expiry
                         => verify_token(r.db, now, row.token) = row.user_id
    /\ \A row \in tokens :
          now < row.created_at + Expiry
             => verify_token(DB, now, row.token) = row.user_id

(* After a login the user holds two different tokens, the older issued at
   an earlier time, and both validate. *)
C8_Witness ==
    /\ resp.op = "login"
    /\ resp.status = 200
    /\ \E r1, r2 \in tokens :
          /\ r1.token # r2.token
          /\ r1.user_id = r2.user_id
          /\ r1.created_at < r2.created_at
          /\ r2.token = resp.body.token
          /\ verify_token(DB, now, r1.token) = r1.user_id
          /\ verify_token(DB, now, r2.token) = r2.user_id
(***************************************************************************)
(* C3.  After add_friend(A, B) succeeds both edges (A,B) and (B,A) exist;  *)
(* with either edge present, add_friend(A, B) and add_friend(B, A) fail    *)
(* with 400 "Already friends" and leave the database as it was; the edge   *)
(* set is symmetric, and an add_friend that fails changes nothing.         *)
(***************************************************************************)
C3_FriendSymmetry ==
    /\ \A e \in friends : <<e[2], e[1]>> \in friends
    /\ \A h \in StoredTokens, b \in Ids :
          Live(h) =>
             \A r \in add_friend(DB, now, h, Some(b)) :
                /\ r.status = 200
                      => {<<Owner(h), b>>, <<b, Owner(h)>>} \subseteq r.db.friends
                /\ (<<Owner(h), b>> \in friends \/ <<b, Owner(h)>> \in friends)
                      => /\ r.status = 400
                         /\ r.body = [error |-> "Already friends"]
                /\ r.status # 200 => r.db = DB

(* bob asked for alice after alice had added bob, and was told they were
   friends already. *)
C3_Witness ==
    /\ resp.op = "add_friend"
    /\ resp.status = 400
    /\ resp.body = [error |-> "Already friends"]
    /\ resp.req.token = "t2"
    /\ resp.req.friend_id = Some(1)
    /\ {<<1, 2>>, <<2, 1>>} \subseteq friends

(***************************************************************************)
(* C4.  For a requester A and any id B without the edge (A,B), whether B   *)
(* is a user or not, has entries or not, and for any date argument,        *)
(* get_friend_food has one result: 403 "Not friends", with no rows of the  *)
(* diary and the database as it was.                                       *)
(***************************************************************************)
C4_NonFriendForbidden ==
    \A h \in StoredTokens, b \in Ids \cup {0}, d \in Dates :
        (Live(h) /\ <<Owner(h), b>> \notin friends) =>
            get_friend_food(DB, now, h, b, d) = {Error(DB, 403, "Not friends")}

(* The diary of a user who had logged a meal was asked for by a non-friend
   and refused. *)
C4_Witness ==
    /\ resp.op = "get_friend_food"
    /\ resp.status = 403
    /\ \E e \in food_entries :
          /\ e.user_id = resp.req.friend_id
          /\ e.logged_at < resp.at
          /\ resp.req.date = Some(date(e.logged_at))
(***************************************************************************)
(* C5.  get_feed of requester A answers 200 with exactly the entries of    *)
(* the users B with edge (A,B), none of a non-friend and none of A's own,  *)
(* newest first, each with its author's username; with no friends the feed *)
(* is empty, not an error.  The feed query cut at a limit k returns the k  *)
(* newest such entries (get_feed uses k = 50).                             *)
(***************************************************************************)
FriendEntries(a) == {e \in food_entries : <<a, e.user_id>> \in friends}

(* The food entry inside a feed row. *)
EntryOf(row) == [f \in DOMAIN row \ {"username"} |-> row[f]]

NewestFirst(s, all, limit) ==
    /\ Len(s) = Min(limit, Cardinality(all))
    /\ \A i, j \in DOMAIN s : i < j => (s[i] # s[j] /\ s[i].logged_at >= s[j].logged_at)
    /\ \A i \in DOMAIN s : EntryOf(s[i]) \in all
    /\ \A e \in all \ {EntryOf(s[i]) : i \in DOMAIN s} :
          \A i \in DOMAIN s : s[i].logged_at >= e.logged_at

C5_FeedIsFriendsEntries ==
    \A h \in StoredTokens :
        Live(h) =>
            LET a == Owner(h)
                R == get_feed(DB, now, h)
            IN /\ R # {}
               /\ \A r \in R :
                     /\ r.status = 200
                     /\ r.db = DB
                     /\ NewestFirst(r.body.rows, FriendEntries(a), 50)
                     /\ \A i \in DOMAIN r.body.rows :
                           /\ r.body.rows[i].user_id # a
                           /\ \E u \in users :
                                 /\ u.id = r.body.rows[i].user_id
                                 /\ u.username = r.body.rows[i].username
               /\ FriendEntries(a) = {} => View(R) = {[status |-> 200, body |-> [rows |-> <<>>]]}
               /\ \A k \in 0..Cardinality(food_entries) :
                     /\ feed_query(DB, a, k) # {}
                     /\ \A s \in feed_query(DB, a, k) : NewestFirst(s, FriendEntries(a), k)

(* alice's feed showed one entry, her friend's, while a user who is not
   her friend had logged an entry too. *)
C5_Witness ==
    /\ resp.op = "get_feed"
    /\ resp.status = 200
    /\ Len(resp.body.rows) = 1
    /\ \E e \in food_entries :
          /\ e.user_id # Owner(resp.req.token)
          /\ <<Owner(resp.req.token), e.user_id>> \notin friends
          /\ e.logged_at < resp.at

(***************************************************************************)
(* C6.  As stated: get_stats answers 200 with, for each of calories,       *)
(* protein, carbs and fats, the sum of that field over exactly the         *)
(* requester's entries logged on the date; the sum over no entries is 0.   *)
(***************************************************************************)
EntriesOn(a, day) ==
    {e \in food_entries : e.user_id = a /\ Some(date(e.logged_at)) = day}

Totals(rows) ==
    [total_calories |-> Some(SumOf(rows, "calories")),
     total_protein |-> Some(SumOf(rows, "protein")),
     total_carbs |-> Some(SumOf(rows, "carbs")),
     total_fats |-> Some(SumOf(rows, "fats"))]

NoTotals ==
    [total_calories |-> NULL, total_protein |-> NULL, total_carbs |-> NULL,
     total_fats |-> NULL]

C6_ZeroTotalsWithoutEntries ==
    \A h \in StoredTokens, d \in Dates \ {NULL} :
        Live(h) =>
            View(get_stats(DB, now, h, d))
                = {[status |-> 200, body |-> Totals(EntriesOn(Owner(h), d))]}

(* C6, amended: when the requester has no entry on the date, get_stats
   answers 200 with each of the four totals null (no data, not an error and
   not 0); otherwise each total is the sum of that field over exactly the
   requester's entries logged on that date, whatever other users logged and
   whatever the requester logged on other dates.  The database is left as
   it was. *)
C6_DailyTotals ==
    \A h \in StoredTokens, d \in Dates \ {NULL} :
        Live(h) =>
            /\ View(get_stats(DB, now, h, d))
                  = {[status |-> 200,
                      body |-> IF EntriesOn(Owner(h), d) = {} THEN NoTotals
                               ELSE Totals(EntriesOn(Owner(h), d))]}
            /\ \A r \in get_stats(DB, now, h, d) : r.db = DB

(* alice logged 300 and 200 calories on one day and her totals for that day
   came back as 500. *)
C6_Witness ==
    /\ resp.op = "get_stats"
    /\ resp.status = 200
    /\ resp.req.date # NULL
    /\ resp.body.total_calories = Some(500)
    /\ Cardinality(EntriesOn(Owner(resp.req.token), resp.req.date)) = 2
(***************************************************************************)
(* C9.  Each of the nine token-protected requests, sent with no token,     *)
(* with a token that is not stored or with a stored token 30 days old or   *)
(* older, is answered 401 with an error message and no data, and leaves    *)
(* users, tokens, friend edges and food entries as they were.              *)
(***************************************************************************)
Requests ==
    {[op |-> "add_food", data |-> data] : data \in Foods}
    \cup {[op |-> o, date |-> d] : o \in {"get_food", "get_stats"}, d \in Dates}
    \cup {[op |-> "search_users", q |-> q] : q \in Queries}
    \cup {[op |-> "add_friend", friend_id |-> f] : f \in {NULL} \cup {Some(i) : i \in Ids}}
    \cup {[op |-> o] : o \in {"get_friends", "get_feed"}}
    \cup {[op |-> "get_friend_food", friend_id |-> f, date |-> d] : f \in Ids, d \in Dates}
    \cup {[op |-> "search_food", q |-> q] : q \in FoodQueries}

Missing(h) == h = ""
Unknown(h) == h # "" /\ h \notin StoredTokens

C9_BadTokenUnauthorized ==
    \A h \in Headers, q \in Requests :
        (Missing(h) \/ Unknown(h) \/ Expired(h)) =>
            /\ handle(DB, now, h, q) # {}
            /\ \A r \in handle(DB, now, h, q) :
                  /\ r.status = 401
                  /\ DOMAIN r.body = {"error"}
                  /\ r.db = DB

(* A meal was posted with a token issued 30 days before, by a user with
   an entry and a friend on record, and refused. *)
C9_Witness ==
    /\ resp.op = "add_food"
    /\ resp.status = 401
    /\ \E r \in tokens :
          /\ r.token = resp.req.token
          /\ resp.at >= r.created_at + Expiry
          /\ \E e \in food_entries : e.user_id = r.user_id
          /\ \E e \in friends : e[1] = r.user_id

C11_RegisterCreatesUserAndToken ==
    \A u \in Usernames \cup {"", None}, p \in AllPasswords,
       tok \in TokenStrings \ StoredTokens :
        LET r == register(DB, now, u, p, tok)
        IN IF Falsy(u) \/ Falsy(p)
           THEN /\ r.status = 400
                /\ DOMAIN r.body = {"error"}
                /\ r.db = DB
           ELSE (\A row \in users : row.username # u) =>
                \E id \in 1..(Cardinality(users) + 1) :
                   /\ \A row \in users : row.id # id
                   /\ r.status = 201
                   /\ r.body = [token |-> tok, username |-> u, user_id |-> id]
                   /\ r.db.users \ users = {[id |-> id, username |-> u,
                                             password |-> hash_password(p)]}
                   /\ users \subseteq r.db.users
                   /\ r.db.tokens \ tokens = {[token |-> tok, user_id |-> id,
                                               created_at |-> now]}
                   /\ tokens \subseteq r.db.tokens
                   /\ r.db.friends = friends
                   /\ r.db.food_entries = food_entries
                   /\ verify_token(r.db, now, tok) = id

(* A second user registered: there are two users, and the token returned
   is stored once, for the new user. *)
C11_Witness ==
    /\ resp.op = "register"
    /\ resp.status = 201
    /\ Cardinality(users) = 2
    /\ \E row \in users :
          /\ row.username = resp.req.username
          /\ row.id = resp.body.user_id
    /\ {r \in tokens : r.token = resp.body.token}
          = {[token |-> resp.body.token, user_id |-> resp.body.user_id,
              created_at |-> resp.at]}
(***************************************************************************)
(* C12.  As stated: add_food with a body whose meal_name is empty or       *)
(* missing, or whose calories is missing, is answered with a validation    *)
(* error (a 4xx status) and stores nothing; with any other body it answers *)
(* 201 and stores one entry of the requester with the body's values,       *)
(* protein, carbs and fats 0 and notes empty where unset, logged_at the    *)
(* server clock.                                                           *)
(***************************************************************************)
Invalid(data) ==
    \/ "meal_name" \notin DOMAIN data
    \/ "calories" \notin DOMAIN data
    \/ data["meal_name"] = ""

C12_AppendValidatesAndDefaults ==
    \A h \in StoredTokens, data \in Foods \cup InvalidFoods :
        Live(h) =>
            \A r \in add_food(DB, now, h, data) :
                IF Invalid(data)
                THEN r.status \in 400..499 /\ r.db = DB
                ELSE /\ r.status = 201
                     /\ r.db.food_entries \ food_entries
                           = {[id |-> r.body.id,
                               user_id |-> Owner(h),
                               meal_name |-> data["meal_name"],
                               calories |-> data["calories"],
                               protein |-> Get(data, "protein", 0),
                               carbs |-> Get(data, "carbs", 0),
                               fats |-> Get(data, "fats", 0),
                               notes |-> Get(data, "notes", ""),
                               logged_at |-> now]}

(* The part of C12 the code keeps: a body with meal_name and calories,     *)
(* the name empty or not, is stored as one entry of the requester with the *)
(* defaults and the server's time stamp; a body without one of the two     *)
(* fields ends in a server error and stores nothing.                       *)
C12_AcceptedEntryStored ==
    \A h \in StoredTokens, data \in Foods \cup InvalidFoods :
        Live(h) =>
            \A r \in add_food(DB, now, h, data) :
                IF {"meal_name", "calories"} \subseteq DOMAIN data
                THEN /\ r.status = 201
                     /\ food_entries \subseteq r.db.food_entries
                     /\ r.db.food_entries \ food_entries
                           = {[id |-> r.body.id,
                               user_id |-> Owner(h),
                               meal_name |-> data["meal_name"],
                               calories |-> data["calories"],
                               protein |-> Get(data, "protein", 0),
                               carbs |-> Get(data, "carbs", 0),
                               fats |-> Get(data, "fats", 0),
                               notes |-> Get(data, "notes", ""),
                               logged_at |-> now]}
                ELSE r.status = 500 /\ r.db = DB

(* A meal with an empty name was posted and is in the diary. *)
C12_Witness ==
    /\ resp.op = "add_food"
    /\ resp.status = 201
    /\ resp.req.data = EmptyName
    /\ \E e \in food_entries :
          e.id = resp.body.id /\ e.meal_name = "" /\ e.protein = 0 /\ e.notes = ""
(***************************************************************************)
(* C13.  get_food of requester A answers 200 with rows that are all A's:   *)
(* without a date, A's 50 entries of greatest logged_at (all when fewer),  *)
(* newest first; with a date, exactly A's entries logged on that calendar  *)
(* day, newest first.  The diary order cut at a limit k keeps the k newest *)
(* entries (get_food uses k = 50).                                         *)
(***************************************************************************)
OwnEntries(a) == {e \in food_entries : e.user_id = a}

C13_OwnDiary ==
    \A h \in StoredTokens, d \in Dates :
        Live(h) =>
            LET a == Owner(h)
                R == get_food(DB, now, h, d)
                sel == IF d = NULL THEN OwnEntries(a) ELSE EntriesOn(a, d)
            IN /\ R # {}
               /\ \A r \in R :
                     /\ r.status = 200
                     /\ r.db = DB
                     /\ NewestFirst(r.body.rows, sel,
                                    IF d = NULL THEN 50 ELSE Cardinality(sel))
                     /\ \A i \in DOMAIN r.body.rows : r.body.rows[i].user_id = a
               /\ \A k \in 0..Cardinality(food_entries) :
                     /\ OrderByLoggedAtDescLimit(OwnEntries(a), k) # {}
                     /\ \A s \in OrderByLoggedAtDescLimit(OwnEntries(a), k) :
                           NewestFirst(s, OwnEntries(a), k)

(* A diary read for day 0 returned one entry while the requester had a
   second entry, logged on day 1. *)
C13_Witness ==
    /\ resp.op = "get_food"
    /\ resp.status = 200
    /\ resp.req.date = Some(0)
    /\ Len(resp.body.rows) = 1
    /\ \E e \in OwnEntries(Owner(resp.req.token)) :
          date(e.logged_at) = 1 /\ e.logged_at <= resp.at
(***************************************************************************)
(* C14.  As stated: search_users of requester A answers 200 with at most   *)
(* 10 users, none of them A, each with a username that contains the query  *)
(* as a substring when the case of letters is ignored, and with the same   *)
(* results whatever the friend edges are.                                  *)
(***************************************************************************)
Fold(c) == CASE c = "A" -> "a" [] c = "L" -> "l" [] OTHER -> c

(* q occurs in name as a substring, case ignored. *)
Contains(q, name) ==
    \E i \in 0..(Len(Chars(name)) - Len(Chars(q))) :
        \A j \in 1..Len(Chars(q)) :
            Fold(Chars(q)[j]) = Fold(Chars(name)[i + j])

C14_SearchBySubstring ==
    \A h \in StoredTokens, q \in Queries \cup LikeQueries :
        Live(h) =>
            /\ \A r \in search_users(DB, now, h, q) :
                  /\ r.status = 200
                  /\ Len(r.body.rows) <= 10
                  /\ \A i \in DOMAIN r.body.rows :
                        /\ r.body.rows[i].id # Owner(h)
                        /\ Contains(q, r.body.rows[i].username)
            /\ View(search_users([DB EXCEPT !.friends = {}], now, h, q))
                  = View(search_users(DB, now, h, q))

(* alice searched for "b_b" and was given bob, whose name does not hold
   that string. *)
C14_Witness ==
    /\ resp.op = "search_users"
    /\ resp.status = 200
    /\ resp.req.q = "b_b"
    /\ \E i \in DOMAIN resp.body.rows :
          /\ resp.body.rows[i].username = "bob"
          /\ ~Contains("b_b", "bob")
(***************************************************************************)
(* C15.  As stated: user A can obtain entries of another user B, through   *)
(* get_friend_food or through get_feed, only if A has performed an         *)
(* add_friend naming B and B has performed an add_friend naming A.         *)
(***************************************************************************)
(* Some request of a with a valid token returns an entry of b. *)
Obtains(a, b) ==
    \E h \in StoredTokens :
        /\ Live(h)
        /\ Owner(h) = a
        /\ \/ \E d \in Dates : \E r \in get_friend_food(DB, now, h, b, d) :
                 r.status = 200 /\ \E i \in DOMAIN r.body.rows : r.body.rows[i].user_id = b
           \/ \E r \in get_feed(DB, now, h) :
                 r.status = 200 /\ \E i \in DOMAIN r.body.rows : r.body.rows[i].user_id = b

UserIds == {u.id : u \in users}

C15_OnlyMutuallyConfirmed ==
    \A a, b \in UserIds :
        (a # b /\ Obtains(a, b)) => (<<a, b>> \in added /\ <<b, a>> \in added)

(* C15, amended: user A can obtain entries of another user B, through
   get_friend_food or through get_feed, only if at least one of A and B has
   performed a successful add_friend naming the other (one such request, by
   either of them, is enough; the other user confirms nothing). *)
C15_OnlyAfterOneAddFriend ==
    \A a, b \in UserIds :
        (a # b /\ Obtains(a, b)) => (<<a, b>> \in added \/ <<b, a>> \in added)

(* carol read bob's diary and found an entry; bob had added carol, and
   carol had never named bob. *)
C15_Witness ==
    /\ resp.op = "get_friend_food"
    /\ resp.status = 200
    /\ resp.req.token = "t3"
    /\ resp.req.friend_id = 2
    /\ Len(resp.body.rows) > 0
    /\ <<2, 3>> \in added
    /\ <<3, 2>> \notin added
(***************************************************************************)
(* C16.  In every committed state, whatever add_friend requests have       *)
(* succeeded, failed or been cut off by a crash of the server (also        *)
(* between the two INSERTs), the friends table is symmetric: (A,B) is in   *)
(* it exactly when (B,A) is.  The writes of a request in progress are not  *)
(* yet in the table.                                                       *)
(***************************************************************************)
C16_CommittedEdgesSymmetric ==
    /\ \A a, b \in Ids : <<a, b>> \in friends <=> <<b, a>> \in friends
    /\ \A i \in Threads : txn[i].writes \cap friends = {}

(* The server crashed after the first INSERT of a request and before the
   second: the one edge written is not in the table, which holds the edges
   of an earlier request. *)
C16_Witness ==
    \E i \in Threads :
        /\ txn[i].pc = "crashed"
        /\ Cardinality(txn[i].undone) = 1
        /\ txn[i].undone \cap friends = {}
        /\ friends # {}

(***************************************************************************)
(* C17.  Two add_friend requests for the same pair of distinct users A, B  *)
(* (both (A,B), or (A,B) and (B,A)), begun while neither edge was          *)
(* committed and both run to their response, on two threads in any         *)
(* interleaving: one is answered 200 and the other 400 "Already friends",  *)
(* and the table then holds both (A,B) and (B,A).                          *)
(***************************************************************************)
PairOf(i) == {txn[i].user_id} \cup txn[i].friend_id

C17_OneWinner ==
    \A i, j \in Threads :
        (/\ i # j
         /\ txn[i].pc = "done" /\ txn[j].pc = "done"
         /\ txn[i].fresh /\ txn[j].fresh
         /\ Cardinality(PairOf(i)) = 2
         /\ PairOf(i) = PairOf(j))
        => /\ {txn[i].status, txn[j].status} = {200, 400}
           /\ \A a, b \in PairOf(i) : a # b => <<a, b>> \in friends

(* alice's add_friend naming bob and bob's naming alice ran at the same
   time: bob's was answered 200, alice's 400. *)
C17_Witness ==
    /\ txn[1].pc = "done" /\ txn[2].pc = "done"
    /\ txn[1].fresh /\ txn[2].fresh
    /\ txn[1].user_id = 1 /\ txn[1].friend_id = Some(2) /\ txn[1].status = 400
    /\ txn[2].user_id = 2 /\ txn[2].friend_id = Some(1) /\ txn[2].status = 200
    /\ {<<1, 2>>, <<2, 1>>} \subseteq friends
(***************************************************************************)
(* C18.  As stated: add_friend of user A naming A itself answers 200 and   *)
(* leaves the edge (A,A) in the friends table.                             *)
(***************************************************************************)
C18_SelfFriendSucceeds ==
    \A h \in StoredTokens :
        Live(h) =>
            \A r \in add_friend(DB, now, h, Some(Owner(h))) :
                r.status = 200 /\ <<Owner(h), Owner(h)>> \in r.db.friends

(* C18, amended: add_friend of user A naming A itself is rejected, by no
   guard of its own but by the primary key: the second INSERT repeats the
   pair (A,A) of the first, the request answers 400 "Already friends" and
   the first INSERT is rolled back.  No edge (A,A) is ever in the table,
   and get_friend_food of A for A answers 403. *)
C18_SelfFriendRejected ==
    /\ \A a \in Ids : <<a, a>> \notin friends
    /\ \A h \in StoredTokens :
          Live(h) =>
             /\ add_friend(DB, now, h, Some(Owner(h)))
                   = {Error(DB, 400, "Already friends")}
             /\ \A d \in Dates :
                   get_friend_food(DB, now, h, Owner(h), d)
                      = {Error(DB, 403, "Not friends")}

(* alice named herself while she had no friends at all, and was told
   "Already friends"; the table is still empty. *)
C18_Witness ==
    /\ resp.op = "add_friend"
    /\ resp.req.token = "t1"
    /\ resp.req.friend_id = Some(1)
    /\ resp.status = 400
    /\ resp.body = [error |-> "Already friends"]
    /\ friends = {}
(***************************************************************************)
(* C19.  As stated: the own diary, a friend's diary and the feed each have *)
(* one possible answer in a given state, in which entries of equal         *)
(* logged_at follow each other in the order of their ids.                  *)
(***************************************************************************)
TiesById(s) ==
    \A i, j \in DOMAIN s :
        (i < j /\ s[i].logged_at = s[j].logged_at) => s[i].id < s[j].id

Deterministic(R) ==
    /\ Cardinality(R) = 1
    /\ \A r \in R : r.status = 200 => TiesById(r.body.rows)

C19_DeterministicOrder ==
    \A h \in StoredTokens :
        Live(h) =>
            /\ \A d \in Dates : Deterministic(get_food(DB, now, h, d))
            /\ \A b \in Ids, d \in Dates : Deterministic(get_friend_food(DB, now, h, b, d))
            /\ Deterministic(get_feed(DB, now, h))

(* A friend's diary was read and two entries logged in the same second
   came back with the later one first. *)
C19_Witness ==
    /\ resp.op = "get_friend_food"
    /\ resp.status = 200
    /\ Len(resp.body.rows) = 2
    /\ resp.body.rows[1].logged_at = resp.body.rows[2].logged_at
    /\ resp.body.rows[1].id > resp.body.rows[2].id
(***************************************************************************)
(* C20.  As stated: get_friends of requester A answers 200 with one row    *)
(* for each id B with the edge (A,B) in the friends table and no other     *)
(* row, each row with B's username; B is listed exactly when               *)
(* get_friend_food of A for B is not answered 403.                         *)
(***************************************************************************)
Listed(r) == {r.body.rows[i].id : i \in DOMAIN r.body.rows}

C20_ListIsEdgeSet ==
    \A h \in StoredTokens :
        Live(h) =>
            \A r \in get_friends(DB, now, h) :
                /\ r.status = 200
                /\ Len(r.body.rows) = Cardinality(Listed(r))
                /\ Listed(r) = {b \in Ids : <<Owner(h), b>> \in friends}
                /\ \A i \in DOMAIN r.body.rows :
                      \E u \in users : /\ u.id = r.body.rows[i].id
                                       /\ u.username = r.body.rows[i].username
                /\ \A b \in Ids :
                      b \in Listed(r)
                         <=> \A g \in get_friend_food(DB, now, h, b, NULL) : g.status # 403

(* The part of C20 the code keeps: the rows are the registered users B     *)
(* with the edge (A,B), each once and with its username; an edge to an id  *)
(* that no user has is not listed, though get_friend_food for that id is   *)
(* not answered 403.                                                       *)
C20_ListIsRegisteredFriends ==
    \A h \in StoredTokens :
        Live(h) =>
            \A r \in get_friends(DB, now, h) :
                /\ r.status = 200
                /\ r.db = DB
                /\ Len(r.body.rows) = Cardinality(Listed(r))
                /\ Listed(r) = {b \in UserIds : <<Owner(h), b>> \in friends}
                /\ \A i \in DOMAIN r.body.rows :
                      \E u \in users : /\ u.id = r.body.rows[i].id
                                       /\ u.username = r.body.rows[i].username
                /\ \A b \in UserIds :
                      b \in Listed(r)
                         <=> \A g \in get_friend_food(DB, now, h, b, NULL) : g.status # 403

(* alice listed her friends and the list was empty, while the table held
   her edge to the id 4, which no user has. *)
C20_Witness ==
    /\ resp.op = "get_friends"
    /\ resp.req.token = "t1"
    /\ resp.status = 200
    /\ resp.body.rows = <<>>
    /\ <<1, 4>> \in friends
    /\ 4 \notin UserIds
(***************************************************************************)
(* C21.  As stated: in every state both ends of every friend edge, the     *)
(* user_id of every token and the user_id of every food entry are ids of   *)
(* rows of users; add_friend with a friend_id that is missing or that no   *)
(* user has creates no edge.                                               *)
(***************************************************************************)
C21_ReferencesRegistered ==
    /\ \A e \in friends : e[1] \in UserIds /\ e[2] \in UserIds
    /\ \A r \in tokens : r.user_id \in UserIds
    /\ \A e \in food_entries : e.user_id \in UserIds
    /\ \A h \in StoredTokens, f \in {NULL} \cup {Some(i) : i \in Ids \ UserIds} :
          Live(h) => \A r \in add_friend(DB, now, h, f) : r.db.friends = friends

(* The part of C21 the code keeps: tokens and food entries belong to rows  *)
(* of users, the first end of an edge written by a request is the          *)
(* requester, and add_friend without a friend_id creates no edge.          *)
C21_TokensAndEntriesReferenceUsers ==
    /\ \A r \in tokens : r.user_id \in UserIds
    /\ \A e \in food_entries : e.user_id \in UserIds
    /\ \A e \in friends : e[1] \in UserIds \/ e[2] \in UserIds
    /\ \A h \in StoredTokens :
          Live(h) => add_friend(DB, now, h, NULL) = {Error(DB, 400, "Already friends")}

(* alice named the id 4, which no user has, and was answered "Friend
   added"; the table holds the edges (1,4) and (4,1). *)
C21_Witness ==
    /\ resp.op = "add_friend"
    /\ resp.req.token = "t1"
    /\ resp.req.friend_id = Some(4)
    /\ resp.status = 200
    /\ 4 \notin UserIds
    /\ {<<1, 4>>, <<4, 1>>} \subseteq friends

(***************************************************************************)
(* C22.  Under every interleaving of concurrent register requests no two   *)
(* users share a username and no two users share an id; of two requests    *)
(* for one username that both began while it was free, exactly one creates *)
(* the user and is answered 201 (its token draw being new), and the other  *)
(* is answered 400 "Username already exists" and creates nothing.          *)
(***************************************************************************)
Concurrent(i, j) ==
    /\ i # j
    /\ txn[i].pc = "done" /\ txn[j].pc = "done"
    /\ "username" \in DOMAIN txn[i] /\ "username" \in DOMAIN txn[j]
    /\ txn[i].fresh /\ txn[j].fresh
    /\ ~Falsy(txn[i].username) /\ ~Falsy(txn[i].password) /\ ~Falsy(txn[j].password)
    /\ txn[i].username = txn[j].username

Created(i) == txn[i].user_id # 0

DrawCollided(i) ==
    /\ txn[i].status = 400
    /\ \E r \in tokens : r.token = txn[i].token /\ r.user_id # txn[i].user_id

C22_ConcurrentRegisterUnique ==
    /\ \A u1, u2 \in users :
          (u1.username = u2.username \/ u1.id = u2.id) => u1 = u2
    /\ \A i, j \in Threads :
          Concurrent(i, j) =>
             /\ Created(i) # Created(j)
             /\ \A k \in {i, j} :
                   IF Created(k)
                   THEN /\ txn[k].status = 201 \/ DrawCollided(k)
                        /\ \E u \in users : /\ u.id = txn[k].user_id
                                            /\ u.username = txn[k].username
                                            /\ u.password = hash_password(txn[k].password)
                   ELSE txn[k].status = 400 /\ txn[k].undone = {}

C22_Witness ==
    /\ Concurrent(1, 2)
    /\ txn[1].username = "alice"
    /\ txn[1].password # txn[2].password
    /\ txn[1].status = 201 /\ txn[2].status = 400
    /\ Cardinality({u \in users : u.username = "alice"}) = 1

(***************************************************************************)
(* C23.  As stated: every stored food entry has calories >= 0 and protein, *)
(* carbs and fats >= 0, and add_food with a negative calories or macro     *)
(* value stores nothing.                                                   *)
(***************************************************************************)
NonNegative(e) == e.calories >= 0 /\ e.protein >= 0 /\ e.carbs >= 0 /\ e.fats >= 0

C23_NonNegativeEntries ==
    /\ \A e \in food_entries : NonNegative(e)
    /\ \A h \in StoredTokens, data \in NegativeFoods :
          Live(h) => \A r \in add_food(DB, now, h, data) :
                        r.db.food_entries = food_entries

(* The state C23 excludes: bob's request with calories -50 was answered 201
   and the entry is in the table. *)
C23_Witness ==
    /\ resp.op = "add_food"
    /\ resp.req.data = NegativeCalories
    /\ resp.status = 201
    /\ \E e \in food_entries : e.user_id = 2 /\ e.calories = -50

(* What the code keeps of C23: an entry holds exactly the numbers of the
   request that stored it, so the entries of requests with non-negative
   values are non-negative. *)
C23_StoredAsSent ==
    \A h \in StoredTokens, data \in Foods \cup NegativeFoods :
        Live(h) => \A r \in add_food(DB, now, h, data) :
                      \A e \in r.db.food_entries \ food_entries :
                          /\ e.calories = data["calories"]
                          /\ e.protein = Get(data, "protein", 0)
                          /\ NonNegative(e) <=> data \in Foods

(***************************************************************************)
(* C24.  State is append-only: no step of any operation removes or changes *)
(* a user, a token, a friend edge or a food entry (the row with its owner, *)
(* its fields and its created_at / logged_at stays as it is, and no second *)
(* row takes its key), so a pair that is friends stays friends, and a      *)
(* request made with a token leaves the token's 30 days where they were.   *)
(***************************************************************************)
AppendOnly ==
    /\ users \subseteq users'
    /\ tokens \subseteq tokens'
    /\ friends \subseteq friends'
    /\ food_entries \subseteq food_entries'
    /\ \A u \in users : {x \in users' : x.id = u.id \/ x.username = u.username} = {u}
    /\ \A r \in tokens : {x \in tokens' : x.token = r.token} = {r}
    /\ \A e \in food_entries : {x \in food_entries' : x.id = e.id} = {e}

C24_AppendOnly == [][AppendOnly]_vars

(* Alice's token t1, issued at T, posted a meal at T+1d and is refused at
   T+30d; the meal, the edge (alice, bob) and a later token of alice are
   on record. *)
C24_Witness ==
    /\ now = 2592000
    /\ resp.op = "get_friends" /\ resp.req.token = "t1" /\ resp.status = 401
    /\ [token |-> "t1", user_id |-> 1, created_at |-> 0] \in tokens
    /\ [token |-> "t3", user_id |-> 1, created_at |-> 86400] \in tokens
    /\ \E e \in food_entries : e.user_id = 1 /\ e.logged_at = 86400
    /\ {<<1, 2>>, <<2, 1>>} \subseteq friends

(***************************************************************************)
(* C25.  add_food with the token of user A stores one new entry, owned by  *)
(* A whatever owner the request body names, and changes nothing else: the  *)
(* entries on record, the users, the tokens and the friend edges stay, and *)
(* what every other user reads as diary and daily totals stays.  A diary   *)
(* read with A's token returns entries of user B only if A = B or the edge *)
(* (A, B) is stored, and A's totals are those of A's own entries.          *)
(***************************************************************************)
Appended == Foods \cup {SpoofedOwner}

ReadsOf(db, g) ==
    [d \in Dates |-> <<View(get_food(db, now, g, d)), View(get_stats(db, now, g, d))>>]

C25_AppendFrame ==
    \A h \in StoredTokens :
        Live(h) =>
            LET a == Owner(h)
            IN /\ \A data \in Appended :
                     /\ add_food(DB, now, h, data) # {}
                     /\ \A r \in add_food(DB, now, h, data) :
                           LET new == r.db.food_entries \ food_entries
                           IN /\ r.status = 201
                              /\ food_entries \subseteq r.db.food_entries
                              /\ Cardinality(new) = 1
                              /\ \A e \in new : /\ e.user_id = a
                                                /\ e.meal_name = data["meal_name"]
                                                /\ e.calories = data["calories"]
                              /\ r.db.users = users
                              /\ r.db.tokens = tokens
                              /\ r.db.friends = friends
                              /\ \A g \in StoredTokens :
                                    Owner(g) # a => ReadsOf(r.db, g) = ReadsOf(DB, g)
               /\ \A d \in Dates :
                     /\ \A r \in get_food(DB, now, h, d) :
                           \A row \in Range(r.body.rows) : row.user_id = a
                     /\ \A f \in Ids :
                           \A r \in get_friend_food(DB, now, h, f, d) :
                              r.status = 200 =>
                                 \A row \in Range(r.body.rows) :
                                    /\ row.user_id = f
                                    /\ a = f \/ <<a, f>> \in friends
                     /\ View(get_stats(DB, now, h, d)) =
                           View(get_stats([DB EXCEPT !.food_entries = OwnEntries(a)],
                                          now, h, d))

(* Alice posted a meal whose body names bob (id 2) as owner: it is stored
   under alice, bob's own meal is on record, and no edge joins them. *)
C25_Witness ==
    /\ resp.op = "add_food"
    /\ resp.req.token = "t1"
    /\ resp.req.data = SpoofedOwner
    /\ resp.status = 201
    /\ \E e \in food_entries : e.user_id = 1 /\ e.meal_name = "Snack"
    /\ \E e \in food_entries : e.user_id = 2 /\ e.meal_name = "Test Meal"
    /\ <<1, 2>> \notin friends
====
